---- MODULE Spec2Model ----
(***************************************************************************)
(* Model of the proof-certificate notebooks of the repository              *)
(* core-few-candidates:                                                    *)
(*   - duals-counterexample-k8-structure.ipynb  (exact dual verifier)      *)
(*   - primals-counterexample-k8-structure.ipynb (make_model, save_dual)   *)
(*   - check-inequality.ipynb                   (LHS, check_inequality)    *)
(* Python Fractions are modelled as normalised pairs <<numerator,          *)
(* denominator>> with a positive denominator; tuples of alternatives       *)
(* (ballots, committees) are modelled as sets of alternatives, and the     *)
(* sorted list of ballots as a sequence of sets in lexicographic order.    *)
(***************************************************************************)
EXTENDS Integers, Sequences, FiniteSets, TLC

VARIABLES
    dual_solution,   \* verifier input: the dual solution under test
    objective,       \* verifier input: descriptor of the objective vector
    v_result,        \* outcome of the verify_dual_solution call
    dual_solutions,  \* batch: the certificate store loaded from the pickle file
    b_pos,           \* batch: position of the loop in ballots_intersecting_T
    b_pc,            \* batch: "loop", "assert", "done" or "aborted"
    b_result,        \* batch: outcome of the verify_dual_solution call in progress
    b_log,           \* batch: per key looked up, how its check ended
    b_out,           \* batch: lines printed by the cell itself
    m_ballot,        \* model: the ballot whose variable freq[ballot] is followed
    m_dual,          \* model: the dual solution handed to the verifier
    m_column,        \* model: coefficient of freq[m_ballot] in every constraint
    m_lhs,           \* model: the verifier's lhs for m_ballot under m_dual
    pkl_file,        \* store: content of dual_values_k8.pkl
    json_file,       \* store: content of dual_values_k8.json
    not_found,       \* store: the set not_found
    save_call,       \* store: number and arguments of the last save_dual call
    ci_k,            \* inequality: the k of the running check_inequality(k)
    ci_T_size,       \* inequality: T_size of the outer loop
    ci_T,            \* inequality: the combination T the loop is at
    ci_violations,   \* inequality: the set violations
    ci_printed,      \* inequality: what the driver printed for each k
    ci_pc,           \* inequality: "driver", "T_size", "T" or "done"
    w_origin,        \* wlog: which call site the arguments come from
    w_ground,        \* wlog: the ground set handed to generate_wlog_partition
    w_sets,          \* wlog: the distinguished sets
    w_candidate,     \* wlog: the candidate set handed to is_wlog
    w_partition,     \* wlog: the partition returned
    w_is_wlog,       \* wlog: the outcome of is_wlog
    h_cache,         \* harmonic: the memo table of @cache, argument to value
    h_call,          \* harmonic: the last call of harmonic_number and what it returned
    g_solver,        \* generator: the solver answer to every max_freq program
    g_pc,            \* generator: the cell and statement the run is at
    g_todo,          \* generator: the ballots the current loop has still to visit
    g_writes         \* generator: the save_dual calls with a name, in order

verifyVars == <<dual_solution, objective, v_result>>
batchVars == <<dual_solutions, b_pos, b_pc, b_result, b_log, b_out>>
modelVars == <<m_ballot, m_dual, m_column, m_lhs>>
vars == <<dual_solution, objective, v_result,
          dual_solutions, b_pos, b_pc, b_result, b_log, b_out,
          m_ballot, m_dual, m_column, m_lhs,
          pkl_file, json_file, not_found, save_call,
          ci_k, ci_T_size, ci_T, ci_violations, ci_printed, ci_pc,
          w_origin, w_ground, w_sets, w_candidate, w_partition, w_is_wlog,
          h_cache, h_call,
          g_solver, g_pc, g_todo, g_writes>>
storeVars == <<pkl_file, json_file, not_found, save_call>>
ineqVars == <<ci_k, ci_T_size, ci_T, ci_violations, ci_printed, ci_pc>>
wlogVars == <<w_origin, w_ground, w_sets, w_candidate, w_partition, w_is_wlog>>
harmonicVars == <<h_cache, h_call>>
generatorVars == <<g_solver, g_pc, g_todo, g_writes>>
exceptVerify == <<batchVars, modelVars, storeVars, ineqVars, wlogVars, harmonicVars, generatorVars>>
exceptBatch == <<verifyVars, modelVars, storeVars, ineqVars, wlogVars, harmonicVars, generatorVars>>
exceptModel == <<verifyVars, batchVars, storeVars, ineqVars, wlogVars, harmonicVars, generatorVars>>
exceptStore == <<verifyVars, batchVars, modelVars, ineqVars, wlogVars, harmonicVars, generatorVars>>
exceptIneq == <<verifyVars, batchVars, modelVars, storeVars, wlogVars, harmonicVars, generatorVars>>
exceptWlog == <<verifyVars, batchVars, modelVars, storeVars, ineqVars, harmonicVars, generatorVars>>
exceptHarmonic == <<verifyVars, batchVars, modelVars, storeVars, ineqVars, wlogVars, generatorVars>>
\* the generator run writes the store through save_dual
exceptGenerator == <<verifyVars, batchVars, modelVars, ineqVars, wlogVars, harmonicVars>>

-----------------------------------------------------------------------------
(* Exact rational arithmetic (fractions.Fraction): a Fraction is a pair    *)
(* <<numerator, denominator>> in lowest terms with denominator > 0.        *)

Abs(n) == IF n < 0 THEN -n ELSE n

RECURSIVE GCD(_, _)
GCD(a, b) == IF b = 0 THEN a ELSE GCD(b, a % b)

FNorm(n, d, g) == <<n \div g, d \div g>>

\* Fraction(n, d), d # 0
Fraction(n, d) ==
    IF d < 0 THEN FNorm(-n, -d, GCD(Abs(n), -d)) ELSE FNorm(n, d, GCD(Abs(n), d))

FInt(n) == <<n, 1>>
FNeg(p) == <<-p[1], p[2]>>

FAddG(p, q, g) ==
    Fraction(p[1] * (q[2] \div g) + q[1] * (p[2] \div g), (p[2] \div g) * q[2])
FAdd(p, q) == FAddG(p, q, GCD(p[2], q[2]))
FSub(p, q) == FAdd(p, FNeg(q))

FMulG(p, q, g1, g2) ==
    <<(p[1] \div g1) * (q[1] \div g2), (p[2] \div g2) * (q[2] \div g1)>>
FMul(p, q) == FMulG(p, q, GCD(Abs(p[1]), q[2]), GCD(Abs(q[1]), p[2]))

FLeG(p, q, g) == p[1] * (q[2] \div g) <= q[1] * (p[2] \div g)
FLe(p, q) == FLeG(p, q, GCD(p[2], q[2]))
FGe(p, q) == FLeG(q, p, GCD(p[2], q[2]))
FLt(p, q) == ~FGe(p, q)
FGt(p, q) == ~FLe(p, q)

-----------------------------------------------------------------------------
(* Notebook constants                                                      *)

num_alts == 10
k == 8
A == 0 .. (num_alts - 1)
pav_committee == 0 .. (k - 1)
T == {0, 1, 8, 9}

\* powerset(A) then sorted(...): every subset of A as a sorted tuple, the
\* tuples in lexicographic order; LexFrom(m) lists the subsets of m..num_alts-1
RECURSIVE LexFrom(_)
RECURSIVE LexHeads(_)
LexHeads(i) ==
    IF i >= num_alts THEN <<>>
    ELSE LET tails == LexFrom(i + 1)
         IN  [j \in 1 .. Len(tails) |-> {i} \cup tails[j]] \o LexHeads(i + 1)
LexFrom(m) == <<{}>> \o LexHeads(m)

\* faulty variant: powerset built with range(len(s)) instead of range(len(s)+1): the
\* full set is missing from the universe
ballots_without_full_set == SelectSeq(LexFrom(0), LAMBDA b : b # A)

ballots == LexFrom(0)

\* swaps = [(x,y) for x in pav_committee for y in A if y not in pav_committee]
swaps ==
    LET outside == num_alts - k
    IN  [i \in 1 .. (k * outside) |->
            <<(i - 1) \div outside, k + ((i - 1) % outside)>>]

-----------------------------------------------------------------------------
(* Utility and score primitives                                            *)

utility(ballot, committee) == Cardinality(ballot \cap committee)

\* sum(Fraction(1,i) for i in range(1,r+1))
\* faulty variant: range(1, r) instead of range(1, r+1)
RECURSIVE HSum_exclusive(_, _)
HSum_exclusive(i, r) ==
    IF i >= r THEN FInt(0) ELSE FAdd(Fraction(1, i), HSum_exclusive(i + 1, r))
RECURSIVE HSum(_, _)
HSum(i, r) == IF i > r THEN FInt(0) ELSE FAdd(Fraction(1, i), HSum(i + 1, r))

\* the @cache of harmonic_number: one entry per argument
harmonic_cache == [r \in 0 .. num_alts |-> HSum(1, r)]

harmonic_number(r) == harmonic_cache[r]

\* swapped(committee, x, y) = tuple(set(committee) - {x} | {y})
swapped(committee, x, y) == (committee \ {x}) \cup {y}

-----------------------------------------------------------------------------
(* Dual-feasibility verifier (verify_dual_solution)                        *)

None == "None"

\* a dual solution: the dictionary with keys "alpha", "beta_x_y", "gamma"
MakeDual(alpha, beta, gamma) == [alpha |-> alpha, beta |-> beta, gamma |-> gamma]

\* objective[ballot] for the objective vectors the notebook builds:
\*   freq:     sign * int(ballot == special_ballot)
\*   marginal: sign * (H(utility(ballot, W without x)) - H(utility(ballot, W)))
ObjectiveAt(obj, ballot) ==
    IF obj.kind = "freq"
    THEN FInt(obj.sign * (IF ballot = obj.ballot THEN 1 ELSE 0))
    ELSE FMul(FInt(obj.sign),
              FSub(harmonic_number(utility(ballot, pav_committee \ {obj.x})),
                   harmonic_number(utility(ballot, pav_committee))))

\* one term of the inner loop: beta[x,y] * (H(u(b, swapped(W,x,y))) - H(u(b, W)))
SwapTerm(beta, ballot, x, y) ==
    FMul(beta[<<x, y>>],
         FSub(harmonic_number(utility(ballot, swapped(pav_committee, x, y))),
              harmonic_number(utility(ballot, pav_committee))))

\* the inner loop "for x, y in swaps: lhs += ...", entered with lhs = acc0
SwapSum(beta, ballot, acc0) ==
    LET loop[i \in 1 .. (Len(swaps) + 1), acc \in Int \X Int] ==
            IF i > Len(swaps) THEN acc
            ELSE loop[i + 1, FAdd(acc, SwapTerm(beta, ballot, swaps[i][1], swaps[i][2]))]
    IN  loop[1, acc0]

\* lhs of one ballot as the loop body computes it
Lhs(dual, ballot) ==
    IF utility(ballot, T) > utility(ballot, pav_committee)
    THEN FSub(SwapSum(dual.beta, ballot, dual.alpha), dual.gamma)
    ELSE SwapSum(dual.beta, ballot, dual.alpha)

\* faulty variant: the assertion on gamma is missing
SignsOk_beta_only(dual) ==
    \A x \in pav_committee : \A y \in A \ pav_committee :
        FGe(dual.beta[<<x, y>>], FInt(0))

\* the two sign assertions
SignsOk(dual) ==
    /\ \A x \in pav_committee : \A y \in A \ pav_committee :
            FGe(dual.beta[<<x, y>>], FInt(0))
    /\ FGe(dual.gamma, FInt(0))

\* "not lhs >= objective[ballot]" for the i-th ballot of the loop
Violates(dual, obj, i) == ~FGe(Lhs(dual, ballots[i]), ObjectiveAt(obj, ballots[i]))

\* index of the ballot at which the loop stops: the first violating one
FirstViolation(dual, obj) ==
    CHOOSE i \in 1 .. Len(ballots) :
        Violates(dual, obj, i) /\ \A j \in 1 .. (i - 1) : ~Violates(dual, obj, j)

\* faulty variant: len(T) // k instead of Fraction(len(T), k)
DualObjective_floor_division(dual) ==
    FSub(dual.alpha, FMul(FInt(Cardinality(T) \div k), dual.gamma))

\* the value of the return statement
DualObjective(dual) == FSub(dual.alpha, FMul(Fraction(Cardinality(T), k), dual.gamma))

\* faulty variant: the line shows the two sides exchanged
PrintedLine_exchanged(dual, obj, ballot) ==
    [lhs |-> ObjectiveAt(obj, ballot), rhs |-> Lhs(dual, ballot)]

\* the line printed before the failing assertion: f"lhs = {lhs}, rhs = {objective[ballot]}"
PrintedLine(dual, obj, ballot) ==
    [lhs |-> Lhs(dual, ballot), rhs |-> ObjectiveAt(obj, ballot)]

\* the whole call: how it ended (status, failed assertion), what it printed,
\* the value of the loop variable when it ended, and the value returned
verify_dual_solution(dual, obj) ==
    IF ~SignsOk(dual)
    THEN [status |-> "AssertionError", stage |-> "sign", printed |-> <<>>,
          ballot |-> None, value |-> None]
    ELSE IF \E i \in 1 .. Len(ballots) : Violates(dual, obj, i)
    THEN [status |-> "AssertionError", stage |-> "bound",
          printed |-> <<PrintedLine(dual, obj, ballots[FirstViolation(dual, obj)])>>,
          ballot |-> ballots[FirstViolation(dual, obj)], value |-> None]
    ELSE [status |-> "returned", stage |-> "return", printed |-> <<>>,
          ballot |-> None, value |-> DualObjective(dual)]

-----------------------------------------------------------------------------
(* Inputs of the verifier                                                  *)

SwapPairs == {swaps[i] : i \in 1 .. Len(swaps)}

AlphaInputs == {FInt(0), Fraction(1, 4), FInt(1)}
GammaInputs == {FInt(-1), FInt(0), Fraction(1, 2), FInt(2)}
BetaInputs ==
    { [s \in SwapPairs |-> FInt(0)],
      [s \in SwapPairs |-> IF s[1] >= 2 THEN Fraction(1, 2) ELSE FInt(0)],
      [s \in SwapPairs |-> IF s = <<0, 8>> THEN Fraction(-1, 2) ELSE FInt(0)],
      [s \in SwapPairs |-> FInt(1)] }
DualInputs ==
    {MakeDual(a, b, g) : a \in AlphaInputs, b \in BetaInputs, g \in GammaInputs}

ObjectiveInputs ==
    { [kind |-> "freq", ballot |-> {0, 1, 8}, sign |-> 1],
      [kind |-> "freq", ballot |-> {0, 1, 8}, sign |-> -1],
      [kind |-> "freq", ballot |-> A, sign |-> 1],
      [kind |-> "marginal", x |-> 2, sign |-> 1],
      [kind |-> "marginal", x |-> 2, sign |-> -1] }

Idle == [status |-> "idle", stage |-> None, printed |-> <<>>, ballot |-> None,
         value |-> None]

VerifyIdle ==
    /\ dual_solution = None
    /\ objective = None
    /\ v_result = Idle

BatchIdle ==
    /\ dual_solutions = <<>>
    /\ b_pos = 0
    /\ b_pc = "idle"
    /\ b_result = Idle
    /\ b_log = <<>>
    /\ b_out = <<>>

NotBuilt == [built |-> FALSE]
NotRun == <<>>

ModelIdle ==
    /\ m_ballot = None
    /\ m_dual = None
    /\ m_column = NotBuilt
    /\ m_lhs = NotRun

NoFile == [exists |-> FALSE]
NoCall == [count |-> 0]

StoreIdle ==
    /\ pkl_file = NoFile
    /\ json_file = NoFile
    /\ not_found = {}
    /\ save_call = NoCall

IneqIdle ==
    /\ ci_k = 0
    /\ ci_T_size = 0
    /\ ci_T = <<>>
    /\ ci_violations = {}
    /\ ci_printed = <<>>
    /\ ci_pc = "idle"

NoOrigin == [site |-> "none"]
NotCalled == [called |-> FALSE]

WlogIdle ==
    /\ w_origin = NoOrigin
    /\ w_ground = {}
    /\ w_sets = <<>>
    /\ w_candidate = {}
    /\ w_partition = {}
    /\ w_is_wlog = NotCalled

NoHarmonicCall == [made |-> FALSE]

HarmonicIdle ==
    /\ h_cache = <<>>
    /\ h_call = NoHarmonicCall

GeneratorIdle ==
    /\ g_solver = <<>>
    /\ g_pc = "idle"
    /\ g_todo = <<>>
    /\ g_writes = <<>>

Init ==
    /\ dual_solution \in DualInputs
    /\ objective \in ObjectiveInputs
    /\ v_result = Idle
    /\ BatchIdle
    /\ ModelIdle
    /\ StoreIdle
    /\ IneqIdle
    /\ WlogIdle
    /\ HarmonicIdle
    /\ GeneratorIdle

\* a notebook cell calls verify_dual_solution(dual_solutions[name], objective)
Verify ==
    /\ v_result.status = "idle"
    /\ v_result' = verify_dual_solution(dual_solution, objective)
    /\ UNCHANGED <<dual_solution, objective>>
    /\ UNCHANGED exceptVerify

Next == Verify

Spec == Init /\ [][Next]_vars

-----------------------------------------------------------------------------
(* Symmetry reduction (utility_functions.generate_wlog_partition, is_wlog) *)

\* the indices of the distinguished sets that contain e
Signature(e, distinguished_sets) ==
    {i \in 1 .. Len(distinguished_sets) : e \in distinguished_sets[i]}

\* blocks of elements that lie in exactly the same distinguished sets
generate_wlog_partition(ground_set, distinguished_sets) ==
    { {e2 \in ground_set :
          Signature(e2, distinguished_sets) = Signature(e, distinguished_sets)} :
      e \in ground_set }

\* candidate_set holds, of every block, the lowest-indexed elements only
is_wlog(candidate_set, partition) ==
    \A block \in partition :
        \A e \in candidate_set \cap block :
            \A lower \in block : lower < e => lower \in candidate_set

-----------------------------------------------------------------------------
(* Second program type: the batch of max_freq certificates (cell 10)       *)

\* ballots_intersecting_T after both list comprehensions
partition == generate_wlog_partition(A, <<T, pav_committee>>)
\* faulty variant: the restriction to canonical ballots is left out
ballots_intersecting_T_unfiltered ==
    SelectSeq(ballots, LAMBDA b : \E x \in b : x \in T)
ballots_intersecting_T ==
    SelectSeq(SelectSeq(ballots, LAMBDA b : \E x \in b : x \in T),
              LAMBDA b : is_wlog(b, partition))

\* the ballot analysed in the first program type, skipped by the loop
SkippedBallot == {0, 1, 8}

\* objective = {ballot: int(ballot == special_ballot) for ballot in ballots}
IndicatorOf(special_ballot) == [kind |-> "freq", ballot |-> special_ballot, sign |-> 1]

\* A family of certificates with dual objective 0: alpha = c, gamma = 2c,
\* beta[x,y] = c/2 for x >= 2 and 0 for x in {0,1}.  For c = 1 every ballot has
\* lhs >= 0, so the certificate scaled by c = 1/lhs(special_ballot) certifies
\* the indicator objective of special_ballot.
CertificateScaled(c) ==
    MakeDual(c,
             [s \in SwapPairs |-> IF s[1] >= 2 THEN FMul(c, Fraction(1, 2)) ELSE FInt(0)],
             FMul(c, FInt(2)))
FInv(p) == IF p[1] < 0 THEN <<-p[2], -p[1]>> ELSE <<p[2], p[1]>>
GoodCertificate(special_ballot) ==
    CertificateScaled(FInv(Lhs(CertificateScaled(FInt(1)), special_ballot)))

\* defective certificates: a negative gamma, a violated ballot inequality,
\* a feasible dual whose objective value is 1 instead of 0
DefectiveCertificate(kind) ==
    CASE kind = "sign"  -> MakeDual(FInt(1), [s \in SwapPairs |-> FInt(0)], FInt(-1))
      [] kind = "bound" -> MakeDual(FInt(0), [s \in SwapPairs |-> FInt(0)], FInt(0))
      [] kind = "value" -> MakeDual(FInt(1), [s \in SwapPairs |-> FInt(0)], FInt(0))

Defects == {"missing", "sign", "bound", "value"}

\* how far into the batch the defective key may lie
MaxDefectPos == 3

CheckedKeys ==
    {ballots_intersecting_T[i] : i \in 1 .. Len(ballots_intersecting_T)} \ {SkippedBallot}

GoodStore == [key \in CheckedKeys |-> GoodCertificate(key)]

\* the good store with the key at position pos made defective
StoreWithDefect(pos, kind) ==
    LET bad == ballots_intersecting_T[pos]
    IN  IF kind = "missing"
        THEN [key \in CheckedKeys \ {bad} |-> GoodCertificate(key)]
        ELSE [key \in CheckedKeys |->
                 IF key = bad THEN DefectiveCertificate(kind) ELSE GoodCertificate(key)]

StoreInputs ==
    {GoodStore} \cup {StoreWithDefect(pos, kind) : pos \in 1 .. MaxDefectPos, kind \in Defects}

InitBatch ==
    /\ VerifyIdle
    /\ ModelIdle
    /\ StoreIdle
    /\ IneqIdle
    /\ WlogIdle
    /\ HarmonicIdle
    /\ GeneratorIdle
    /\ dual_solutions \in StoreInputs
    /\ b_pos = 1
    /\ b_pc = "loop"
    /\ b_result = Idle
    /\ b_log = <<>>
    /\ b_out = <<>>

CurrentKey == ballots_intersecting_T[b_pos]

\* if special_ballot == (0, 1, 8): continue
BatchSkip ==
    /\ b_pc = "loop"
    /\ b_pos <= Len(ballots_intersecting_T)
    /\ CurrentKey = SkippedBallot
    /\ b_pos' = b_pos + 1
    /\ UNCHANGED <<dual_solutions, b_pc, b_result, b_log, b_out>>
    /\ UNCHANGED exceptBatch

\* dual_solutions[f"max_freq_{show(special_ballot)}"] raises KeyError: the
\* exception leaves the loop and ends the cell
BatchKeyError ==
    /\ b_pc = "loop"
    /\ b_pos <= Len(ballots_intersecting_T)
    /\ CurrentKey # SkippedBallot
    /\ CurrentKey \notin DOMAIN dual_solutions
    /\ b_log' = Append(b_log, [key |-> CurrentKey, outcome |-> "KeyError"])
    /\ b_pc' = "aborted"
    /\ UNCHANGED <<dual_solutions, b_pos, b_result, b_out>>
    /\ UNCHANGED exceptBatch

\* verify_dual_solution(dual_solutions[...], objective) is evaluated
BatchCall ==
    /\ b_pc = "loop"
    /\ b_pos <= Len(ballots_intersecting_T)
    /\ CurrentKey # SkippedBallot
    /\ CurrentKey \in DOMAIN dual_solutions
    /\ b_result' = verify_dual_solution(dual_solutions[CurrentKey], IndicatorOf(CurrentKey))
    /\ b_pc' = "assert"
    /\ UNCHANGED <<dual_solutions, b_pos, b_log, b_out>>
    /\ UNCHANGED exceptBatch

\* faulty variant: the exception of a failed certificate is caught and the loop goes on
BatchRaise_caught ==
    /\ b_pc = "assert"
    /\ b_result.status = "AssertionError"
    /\ b_log' = Append(b_log, [key |-> CurrentKey, outcome |-> "AssertionError"])
    /\ b_pos' = b_pos + 1
    /\ b_pc' = "loop"
    /\ b_result' = Idle
    /\ UNCHANGED <<dual_solutions, b_out>>
    /\ UNCHANGED exceptBatch

\* an assertion inside verify_dual_solution failed: the AssertionError leaves
\* the loop and ends the cell
BatchRaise ==
    /\ b_pc = "assert"
    /\ b_result.status = "AssertionError"
    /\ b_log' = Append(b_log, [key |-> CurrentKey, outcome |-> "AssertionError"])
    /\ b_pc' = "aborted"
    /\ UNCHANGED <<dual_solutions, b_pos, b_result, b_out>>
    /\ UNCHANGED exceptBatch

\* assert ... == 0 fails on the returned value
BatchAssertFails ==
    /\ b_pc = "assert"
    /\ b_result.status = "returned"
    /\ b_result.value # FInt(0)
    /\ b_log' = Append(b_log, [key |-> CurrentKey, outcome |-> "AssertionError"])
    /\ b_pc' = "aborted"
    /\ UNCHANGED <<dual_solutions, b_pos, b_result, b_out>>
    /\ UNCHANGED exceptBatch

\* assert ... == 0 holds: next iteration
BatchAssertHolds ==
    /\ b_pc = "assert"
    /\ b_result.status = "returned"
    /\ b_result.value = FInt(0)
    /\ b_log' = Append(b_log, [key |-> CurrentKey, outcome |-> "passed"])
    /\ b_pos' = b_pos + 1
    /\ b_pc' = "loop"
    /\ b_result' = Idle
    /\ UNCHANGED <<dual_solutions, b_out>>
    /\ UNCHANGED exceptBatch

\* the loop is exhausted: print("All tests passed, ...")
BatchFinish ==
    /\ b_pc = "loop"
    /\ b_pos > Len(ballots_intersecting_T)
    /\ b_out' = Append(b_out, "All tests passed")
    /\ b_pc' = "done"
    /\ UNCHANGED <<dual_solutions, b_pos, b_result, b_log>>
    /\ UNCHANGED exceptBatch

NextBatch ==
    \/ BatchSkip
    \/ BatchKeyError
    \/ BatchCall
    \/ BatchRaise
    \/ BatchAssertFails
    \/ BatchAssertHolds
    \/ BatchFinish

SpecBatch == InitBatch /\ [][NextBatch]_vars

-----------------------------------------------------------------------------
(* The linear program of make_model (primals notebook, cell 3)             *)

committees == {c \in SUBSET A : Cardinality(c) = k}

\* harmonic_number as imported from utility_functions: H(0) = 0,
\* H(r) = H(r-1) + 1/r, memoised by r
uf_harmonic_cache[r \in 0 .. num_alts] ==
    IF r = 0 THEN FInt(0) ELSE FAdd(uf_harmonic_cache[r - 1], Fraction(1, r))
uf_harmonic_number(r) == uf_harmonic_cache[r]

\* score[committee]: a linear expression, given by the coefficient of
\* freq[ballot]; a committee that is no key of the dict has no score
KeyError == <<>>
score(committee, ballot) ==
    IF committee \in committees
    THEN uf_harmonic_number(utility(ballot, committee))
    ELSE KeyError
opt_score(ballot) == score(pav_committee, ballot)

\* faulty variant: y ranges over set(A), the committee not taken out
make_model_swaps_all_y == {<<x, y>> : x \in pav_committee, y \in A}
make_model_swaps == {<<x, y>> : x \in pav_committee, y \in A \ pav_committee}
W_xy == [s \in make_model_swaps |-> (pav_committee \ {s[1]}) \cup {s[2]}]

ballots_preferring_T_weak(ballot) ==
    utility(ballot, T) >= utility(ballot, pav_committee)
ballots_preferring_T(ballot) ==
    utility(ballot, T) > utility(ballot, pav_committee)

ConstrName(x, y) == "beta_" \o ToString(x) \o "_" \o ToString(y)
ConstrNames == {"alpha", "gamma"} \cup {ConstrName(s[1], s[2]) : s \in make_model_swaps}
SwapNamed(name) == CHOOSE s \in make_model_swaps : ConstrName(s[1], s[2]) = name

\* score[W_xy[(x,y)]] <= opt_score, as the row  score[W_xy] - opt_score <= 0
BetaCoefficient(s, ballot) ==
    IF score(W_xy[s], ballot) = KeyError THEN KeyError
    ELSE FSub(score(W_xy[s], ballot), opt_score(ballot))

\* -quicksum(freq[ballot] for ballot in ballots_preferring_T) <= -len(T) / k
GammaCoefficient(ballot) ==
    IF ballots_preferring_T(ballot) THEN FInt(-1) ELSE FInt(0)

\* the column of freq[ballot] in the constraint matrix of the model
make_model_column(ballot) ==
    [name \in ConstrNames |->
        CASE name = "alpha" -> FInt(1)
          [] name = "gamma" -> GammaCoefficient(ballot)
          [] OTHER -> BetaCoefficient(SwapNamed(name), ballot)]

\* dual solutions that single out one dual variable, and a mixed one
UnitBeta(s) == MakeDual(FInt(0), [t \in SwapPairs |-> IF t = s THEN FInt(1) ELSE FInt(0)], FInt(0))
UnitGamma == MakeDual(FInt(0), [t \in SwapPairs |-> FInt(0)], FInt(1))
UnitAlpha == MakeDual(FInt(1), [t \in SwapPairs |-> FInt(0)], FInt(0))
MixedDual ==
    MakeDual(Fraction(1, 3),
             [t \in SwapPairs |-> Fraction(t[1] + 1, t[2] - 6)],
             Fraction(5, 2))
ModelDualInputs == {UnitBeta(s) : s \in SwapPairs} \cup {UnitGamma, UnitAlpha, MixedDual}

InitModel ==
    /\ VerifyIdle
    /\ BatchIdle
    /\ StoreIdle
    /\ IneqIdle
    /\ WlogIdle
    /\ HarmonicIdle
    /\ GeneratorIdle
    /\ m_ballot \in {ballots[i] : i \in 1 .. Len(ballots)}
    /\ m_dual \in ModelDualInputs
    /\ m_column = NotBuilt
    /\ m_lhs = NotRun

\* m, freq = make_model(): the constraints are added to the model
MakeModel ==
    /\ ~m_column.built
    /\ m_column' = [built |-> TRUE, coefficient |-> make_model_column(m_ballot)]
    /\ UNCHANGED <<m_ballot, m_dual, m_lhs>>
    /\ UNCHANGED exceptModel

\* the loop body of verify_dual_solution for m_ballot
VerifierLhs ==
    /\ m_lhs = NotRun
    /\ m_lhs' = Lhs(m_dual, m_ballot)
    /\ UNCHANGED <<m_ballot, m_dual, m_column>>
    /\ UNCHANGED exceptModel

NextModel == MakeModel \/ VerifierLhs

SpecModel == InitModel /\ [][NextModel]_vars

-----------------------------------------------------------------------------
(* The certificate store: snapping and save_dual (primals notebook, cell 4) *)

\* Python values of the library: the int 0 and Fraction instances
PyInt(n) == [type |-> "int", value |-> FInt(n)]
PyFraction(n, d) == [type |-> "Fraction", value |-> Fraction(n, d)]
\* -frac: the negation of an int is an int, of a Fraction a Fraction
PyNeg(v) == [type |-> v.type, value |-> FNeg(v.value)]

\* for denom in list(range(1, 12)) + [9]
LibraryDenoms == <<1, 2, 3, 4, 5, 6, 7, 8, 9, 10, 11, 9>>
Max(a, b) == IF a >= b THEN a ELSE b
\* for num in range(1, max(4*denom, 10))
LibraryRow(denom) == [num \in 1 .. (Max(4 * denom, 10) - 1) |-> PyFraction(num, denom)]
RECURSIVE LibraryRows(_)
LibraryRows(i) ==
    IF i > Len(LibraryDenoms) THEN <<>>
    ELSE LibraryRow(LibraryDenoms[i]) \o LibraryRows(i + 1)
LibraryExtra ==
    << <<15, 14>>, <<56, 39>>, <<112, 39>>, <<1, 6>>, <<11, 6>>, <<30, 29>>,
       <<60, 29>>, <<3, 7>>, <<4, 7>>, <<5, 8>>, <<5, 7>>, <<6, 7>>, <<20, 23>>,
       <<7, 8>>, <<8, 7>>, <<10, 7>>, <<20, 13>>, <<12, 7>>, <<40, 23>>,
       <<30, 17>>, <<40, 13>>, <<60, 17>>, <<10, 1>>, <<12, 1>>, <<14, 1>>,
       <<11, 2>> >>
fractions_positive ==
    <<PyInt(0)>> \o LibraryRows(1)
        \o [i \in 1 .. Len(LibraryExtra) |-> PyFraction(LibraryExtra[i][1], LibraryExtra[i][2])]
\* fractions += [-frac for frac in fractions]
fractions ==
    fractions_positive \o [i \in 1 .. Len(fractions_positive) |-> PyNeg(fractions_positive[i])]

\* A dual value constr.Pi is a float; it is modelled as a whole number of
\* ticks of 1/PiUnit, fine enough for values closer than 1e-6 to a library
\* entry without being equal to it.
PiUnit == 4 * 1000000

\* abs(frac - value) as the pair <<numerator, denominator>> over d * PiUnit
Distance(frac, value) == <<Abs(frac.value[1] * PiUnit - value * frac.value[2]), frac.value[2]>>
\* a[1]/a[2] < b[1]/b[2], without products of large numbers
DistanceLess(a, b) ==
    \/ a[1] \div a[2] < b[1] \div b[2]
    \/ /\ a[1] \div a[2] = b[1] \div b[2]
       /\ (a[1] % a[2]) * b[2] < (b[1] % b[2]) * a[2]
\* abs(frac - value) < 1e-6
WithinTolerance(frac, value) ==
    Distance(frac, value)[1] < Distance(frac, value)[2] * (PiUnit \div 1000000)

\* any(abs(frac - value) < 1e-6 for frac in fractions)
InLibrary(value) == \E i \in 1 .. Len(fractions) : WithinTolerance(fractions[i], value)

\* min(fractions, key=lambda x: abs(x - value)): the first entry of least distance
SnapIndex(value) ==
    LET dist == [i \in 1 .. Len(fractions) |-> Distance(fractions[i], value)]
    IN  CHOOSE i \in 1 .. Len(fractions) :
            /\ \A j \in 1 .. (i - 1) : DistanceLess(dist[i], dist[j])
            /\ \A j \in (i + 1) .. Len(fractions) : ~DistanceLess(dist[j], dist[i])

\* str(n) of an int, as its sequence of characters
DigitChars == <<"0", "1", "2", "3", "4", "5", "6", "7", "8", "9">>
RECURSIVE NatStr(_)
NatStr(n) ==
    IF n < 10 THEN <<DigitChars[n + 1]>>
    ELSE NatStr(n \div 10) \o <<DigitChars[(n % 10) + 1]>>
IntStr(n) == IF n < 0 THEN <<"-">> \o NatStr(-n) ELSE NatStr(n)

\* FractionEncoder.default: f"{o.numerator}/{o.denominator}", wrong way round
FractionEncoder_inverted(o) ==
    [json |-> "string", text |-> IntStr(o.value[2]) \o <<"/">> \o IntStr(o.value[1])]
\* FractionEncoder.default: f"{o.numerator}/{o.denominator}"
FractionEncoder(o) ==
    [json |-> "string", text |-> IntStr(o.value[1]) \o <<"/">> \o IntStr(o.value[2])]

\* json.dump(..., cls=FractionEncoder) of one value: default() is called only
\* for objects the encoder cannot serialise itself; an int is written as a
\* JSON number
JsonValue(o) ==
    IF o.type = "Fraction" THEN FractionEncoder(o)
    ELSE [json |-> "number", text |-> IntStr(o.value[1])]

JsonDump(saved_values) ==
    [name \in DOMAIN saved_values |->
        [c \in DOMAIN saved_values[name] |-> JsonValue(saved_values[name][c])]]

\* dual values constr.Pi of three solved models, in ticks
PiExact ==
    [c \in ConstrNames |->
        CASE c = "alpha" -> PiUnit
          [] c = "gamma" -> 2 * PiUnit
          [] OTHER -> IF SwapNamed(c)[1] >= 2 THEN PiUnit \div 2 ELSE 0]
PiNear ==
    [c \in ConstrNames |->
        CASE c = "alpha" -> PiUnit + 1
          [] c = "gamma" -> 1333333
          [] OTHER -> IF SwapNamed(c)[1] = 0 THEN -(PiUnit \div 4) ELSE (PiUnit \div 2) + 1]
PiFar ==
    [c \in ConstrNames |->
        CASE c = "alpha" -> 493600
          [] c = "gamma" -> 1
          [] OTHER -> IF SwapNamed(c)[2] = 9 THEN 4285714 ELSE -3 * PiUnit]
PiInputs == {PiExact, PiNear, PiFar}
PiValues == UNION {{pi[c] : c \in ConstrNames} : pi \in PiInputs}

\* the snapping of every dual value that occurs, computed once
SnapTable == [value \in PiValues |-> fractions[SnapIndex(value)]]
InLibraryTable == [value \in PiValues |-> InLibrary(value)]

\* a solved model m: its sense, its dual values, and the dual values after
\* m.setObjective(-m.getObjective(), GRB.MINIMIZE); m.optimize()
ModelInputs ==
    {[ModelSense |-> sense, Pi |-> pi, PiReoptimized |-> again] :
        sense \in {1, -1}, pi \in PiInputs, again \in PiInputs}

NameInputs == {None, "", "max_freq_0", "min_freq_0"}

\* the dual values read by the loop over m.getConstrs()
PiOf(m) == IF m.ModelSense = 1 THEN m.PiReoptimized ELSE m.Pi
dual_values(m) == [c \in ConstrNames |-> SnapTable[PiOf(m)[c]]]
\* faulty variant: not_found.add(value) is missing
NotFoundIn_nothing(m) == {}
NotFoundIn(m) == {PiOf(m)[c] : c \in {d \in ConstrNames : ~InLibraryTable[PiOf(m)[d]]}}

\* m.getConstrs(): the constraints in the order make_model added them
getConstrs ==
    <<"alpha">> \o [i \in 1 .. Len(swaps) |-> ConstrName(swaps[i][1], swaps[i][2])]
                \o <<"gamma">>
\* print(f"not found in fraction library: {value}"), once per such constraint
PrintedNotFound(m) ==
    LET missing == SelectSeq(getConstrs, LAMBDA c : ~InLibraryTable[PiOf(m)[c]])
    IN  [i \in 1 .. Len(missing) |-> PiOf(m)[missing[i]]]

\* saved_values[name] = dual_values, the loaded dict forgotten
SavedValues_only_new(saved_values, name, values) ==
    [n \in {name} |-> values]
\* saved_values[name] = dual_values
SavedValues(saved_values, name, values) ==
    [n \in DOMAIN saved_values \cup {name} |->
        IF n = name THEN values ELSE saved_values[n]]

\* how many save_dual calls a run makes
MaxSaves == 3

EmptyStore == [exists |-> TRUE, content |-> <<>>]
EarlierStore == [n \in {"max_freq_0"} |-> dual_values([ModelSense |-> -1, Pi |-> PiNear, PiReoptimized |-> PiNear])]

\* if not os.path.exists(pkl_filename): pickle.dump({}, ...); not_found = set()
InitStore ==
    /\ VerifyIdle
    /\ BatchIdle
    /\ ModelIdle
    /\ IneqIdle
    /\ WlogIdle
    /\ HarmonicIdle
    /\ GeneratorIdle
    /\ \/ pkl_file = EmptyStore /\ json_file = NoFile
       \/ /\ pkl_file = [exists |-> TRUE, content |-> EarlierStore]
          /\ json_file = [exists |-> TRUE, content |-> JsonDump(EarlierStore)]
    /\ not_found = {}
    /\ save_call = NoCall

\* the body of save_dual(m, name)
save_dual_body(m, name) ==
    /\ not_found' = not_found \cup NotFoundIn(m)
    /\ save_call' = [count |-> save_call.count + 1, name |-> name,
                     values |-> dual_values(m), pi |-> PiOf(m),
                     printed |-> PrintedNotFound(m)]
    /\ IF name # None /\ name # ""
       THEN /\ pkl_file' = [exists |-> TRUE,
                            content |-> SavedValues(pkl_file.content, name, dual_values(m))]
            /\ json_file' = [exists |-> TRUE,
                             content |-> JsonDump(SavedValues(pkl_file.content, name, dual_values(m)))]
       ELSE UNCHANGED <<pkl_file, json_file>>

\* save_dual(m, name)
save_dual ==
    /\ save_call.count < MaxSaves
    /\ \E m \in ModelInputs, name \in NameInputs : save_dual_body(m, name)
    /\ UNCHANGED exceptStore

NextStore == save_dual

SpecStore == InitStore /\ [][NextStore]_vars

-----------------------------------------------------------------------------
(* The key inequality for committee sizes 1..8 (check-inequality notebook)  *)

\* delta_A in the paper
LHS(a, b, c, W_minus_T, T_minus_W) ==
    IF a + b # 0
    THEN FSub(Fraction((W_minus_T - a) * c, a + b + 1),
              Fraction(a * (T_minus_W - c), a + b))
    ELSE Fraction((W_minus_T - a) * c, a + b + 1)

\* for k in range(1, 9)
MaxK == 8

\* itertools.combinations(range(n), r): tuples in lexicographic order
FirstCombination(r) == [p \in 1 .. r |-> p - 1]
Movable(comb, n) == {p \in 1 .. Len(comb) : comb[p] < n - Len(comb) + p - 1}
HasNextCombination(comb, n) == Movable(comb, n) # {}
NextCombination(comb, n) ==
    LET p == CHOOSE q \in Movable(comb, n) : \A r \in Movable(comb, n) : r <= q
    IN  [q \in 1 .. Len(comb) |-> IF q < p THEN comb[q] ELSE comb[p] + 1 + (q - p)]

Elements(comb) == {comb[p] : p \in 1 .. Len(comb)}
W_of(kk) == 0 .. (kk - 1)
wlog_partition(kk, T_size) ==
    generate_wlog_partition(0 .. (kk + T_size - 1), <<0 .. (kk - 1)>>)

W_minus_T(kk, comb) == Cardinality({w \in W_of(kk) : w \notin Elements(comb)})
W_cap_T(kk, comb) == Cardinality({w \in W_of(kk) : w \in Elements(comb)})
\* faulty variant: sum(1 for t in T if t > k), the first outsider k is missed
T_minus_W_above_k(kk, comb) == Cardinality({p \in 1 .. Len(comb) : comb[p] > kk})
T_minus_W(kk, comb) == Cardinality({p \in 1 .. Len(comb) : comb[p] \notin W_of(kk)})

\* if b + c >= a + b (ties taken for a preference)
PrefersT_weak(a, b, c) == b + c >= a + b
\* if b + c > a + b: # prefers T to W
PrefersT(a, b, c) == b + c > a + b

\* LHS(...) < bound (equality not counted)
Fails_strict(lhs, kk, comb) ==
    FLt(lhs, FMul(FSub(Fraction(kk, Len(comb)), FInt(1)), FInt(T_minus_W(kk, comb))))
\* LHS(...) <= (Fraction(k, len(T)) - 1) * T_minus_W
Fails(lhs, kk, comb) ==
    FLe(lhs, FMul(FSub(Fraction(kk, Len(comb)), FInt(1)), FInt(T_minus_W(kk, comb))))

\* the loop over itertools.product(...) adds T to violations
AddsViolation(kk, comb) ==
    \E a \in 0 .. W_minus_T(kk, comb), b \in 0 .. W_cap_T(kk, comb),
       c \in 0 .. T_minus_W(kk, comb) :
        /\ PrefersT(a, b, c)
        /\ Fails(LHS(a, b, c, W_minus_T(kk, comb), T_minus_W(kk, comb)), kk, comb)

InitIneq ==
    /\ VerifyIdle
    /\ BatchIdle
    /\ ModelIdle
    /\ StoreIdle
    /\ WlogIdle
    /\ HarmonicIdle
    /\ GeneratorIdle
    /\ ci_k = 1
    /\ ci_T_size = 0
    /\ ci_T = <<>>
    /\ ci_violations = {}
    /\ ci_printed = <<>>
    /\ ci_pc = "driver"

\* violations = check_inequality(k): violations = set(); W = range(k)
CallCheckInequality ==
    /\ ci_pc = "driver"
    /\ ci_violations' = {}
    /\ ci_T_size' = 1
    /\ ci_pc' = "T_size"
    /\ UNCHANGED <<ci_k, ci_T, ci_printed>>
    /\ UNCHANGED exceptIneq

\* for T_size in range(1, k): the partition is made, the first T is drawn
EnterTSize ==
    /\ ci_pc = "T_size"
    /\ ci_T_size < ci_k
    /\ ci_T' = FirstCombination(ci_T_size)
    /\ ci_pc' = "T"
    /\ UNCHANGED <<ci_k, ci_T_size, ci_violations, ci_printed>>
    /\ UNCHANGED exceptIneq

\* return violations; the driver prints them and goes to the next k
ReturnViolations ==
    /\ ci_pc = "T_size"
    /\ ci_T_size >= ci_k
    /\ ci_printed' = Append(ci_printed, ci_violations)
    /\ ci_k' = ci_k + 1
    /\ ci_pc' = IF ci_k + 1 > MaxK THEN "done" ELSE "driver"
    /\ UNCHANGED <<ci_T_size, ci_T, ci_violations>>
    /\ UNCHANGED exceptIneq

\* the next T of itertools.combinations, or the next T_size
AdvanceT ==
    IF HasNextCombination(ci_T, ci_k + ci_T_size)
    THEN /\ ci_T' = NextCombination(ci_T, ci_k + ci_T_size)
         /\ UNCHANGED <<ci_T_size, ci_pc>>
    ELSE /\ ci_T' = <<>>
         /\ ci_T_size' = ci_T_size + 1
         /\ ci_pc' = "T_size"

\* if not is_wlog(T, wlog_partition): continue
SkipNotWlog ==
    /\ ci_pc = "T"
    /\ ~is_wlog(Elements(ci_T), wlog_partition(ci_k, ci_T_size))
    /\ AdvanceT
    /\ UNCHANGED <<ci_k, ci_violations, ci_printed>>
    /\ UNCHANGED exceptIneq

\* if not T_minus_W: continue # cannot be a deviation
SkipNoDeviation ==
    /\ ci_pc = "T"
    /\ is_wlog(Elements(ci_T), wlog_partition(ci_k, ci_T_size))
    /\ T_minus_W(ci_k, ci_T) = 0
    /\ AdvanceT
    /\ UNCHANGED <<ci_k, ci_violations, ci_printed>>
    /\ UNCHANGED exceptIneq

\* the loop over (a, b, c) finds the inequality violated: violations.add(T)
CheckTViolated ==
    /\ ci_pc = "T"
    /\ is_wlog(Elements(ci_T), wlog_partition(ci_k, ci_T_size))
    /\ T_minus_W(ci_k, ci_T) # 0
    /\ AddsViolation(ci_k, ci_T)
    /\ ci_violations' = ci_violations \cup {ci_T}
    /\ AdvanceT
    /\ UNCHANGED <<ci_k, ci_printed>>
    /\ UNCHANGED exceptIneq

\* the loop over (a, b, c) ends without adding T
CheckTHolds ==
    /\ ci_pc = "T"
    /\ is_wlog(Elements(ci_T), wlog_partition(ci_k, ci_T_size))
    /\ T_minus_W(ci_k, ci_T) # 0
    /\ ~AddsViolation(ci_k, ci_T)
    /\ AdvanceT
    /\ UNCHANGED <<ci_k, ci_violations, ci_printed>>
    /\ UNCHANGED exceptIneq

NextIneq ==
    \/ CallCheckInequality
    \/ EnterTSize
    \/ ReturnViolations
    \/ SkipNotWlog
    \/ SkipNoDeviation
    \/ CheckTViolated
    \/ CheckTHolds

SpecIneq == InitIneq /\ [][NextIneq]_vars

-----------------------------------------------------------------------------
(* Calls of generate_wlog_partition and is_wlog                            *)

\* generate_wlog_partition(range(k + T_size), [range(k + 1)])
wlog_partition_call_off_by_one(kk, T_size) ==
    [ground |-> 0 .. (kk + T_size - 1), sets |-> <<0 .. kk>>]
\* generate_wlog_partition(range(k + T_size), [range(k)])
wlog_partition_call(kk, T_size) ==
    [ground |-> 0 .. (kk + T_size - 1), sets |-> <<0 .. (kk - 1)>>]

\* generate_wlog_partition(A, [T, pav_committee])
partition_call == [ground |-> A, sets |-> <<T, pav_committee>>]

\* the first T of the loop, the T outside the committee, a T that skips 0
DeviationSamples(kk, T_size) ==
    {0 .. (T_size - 1), kk .. (kk + T_size - 1), 1 .. T_size}

CheckInequalityCalls ==
    {[origin |-> [site |-> "check_inequality", k |-> kk, T_size |-> s],
      ground |-> wlog_partition_call(kk, s).ground,
      sets |-> wlog_partition_call(kk, s).sets,
      candidate |-> c] :
        <<kk, s, c>> \in UNION {{<<k1, s1, c1>> : c1 \in DeviationSamples(k1, s1)} :
                                <<k1, s1>> \in {<<k2, s2>> \in (1 .. MaxK) \X (1 .. MaxK) : s2 < k2}}}

NotebookCalls ==
    {[origin |-> [site |-> "ballots_intersecting_T"],
      ground |-> partition_call.ground,
      sets |-> partition_call.sets,
      candidate |-> ballots[i]] : i \in 1 .. Len(ballots)}

\* other ground sets 0..n-1 with up to two distinguished sets
MaxGround == 4
SetLists(ground) ==
    {<<>>} \cup {<<a>> : a \in SUBSET ground}
           \cup {<<a, b>> : a \in SUBSET ground, b \in SUBSET ground}
OtherCalls ==
    UNION {{[origin |-> [site |-> "other"], ground |-> 0 .. (n - 1), sets |-> l, candidate |-> c] :
               l \in SetLists(0 .. (n - 1)), c \in SUBSET (0 .. (n - 1))} :
           n \in 1 .. MaxGround}

WlogCalls == CheckInequalityCalls \cup NotebookCalls \cup OtherCalls

InitWlog ==
    /\ VerifyIdle
    /\ BatchIdle
    /\ ModelIdle
    /\ StoreIdle
    /\ IneqIdle
    /\ HarmonicIdle
    /\ GeneratorIdle
    /\ \E call \in WlogCalls :
        /\ w_origin = call.origin
        /\ w_ground = call.ground
        /\ w_sets = call.sets
        /\ w_candidate = call.candidate
    /\ w_partition = {}
    /\ w_is_wlog = NotCalled

\* partition = generate_wlog_partition(ground_set, distinguished_sets)
CallGenerateWlogPartition ==
    /\ w_partition = {}
    /\ w_partition' = generate_wlog_partition(w_ground, w_sets)
    /\ UNCHANGED <<w_origin, w_ground, w_sets, w_candidate, w_is_wlog>>
    /\ UNCHANGED exceptWlog

\* is_wlog(candidate_set, partition)
CallIsWlog ==
    /\ w_partition # {}
    /\ ~w_is_wlog.called
    /\ w_is_wlog' = [called |-> TRUE, value |-> is_wlog(w_candidate, w_partition)]
    /\ UNCHANGED <<w_origin, w_ground, w_sets, w_candidate, w_partition>>
    /\ UNCHANGED exceptWlog

NextWlog == CallGenerateWlogPartition \/ CallIsWlog

SpecWlog == InitWlog /\ [][NextWlog]_vars

-----------------------------------------------------------------------------
(* harmonic_number under functools.cache                                   *)

\* the arguments the notebook passes: utilities for committees of up to k
HarmonicArgs == 0 .. k

InitHarmonic ==
    /\ VerifyIdle
    /\ BatchIdle
    /\ ModelIdle
    /\ StoreIdle
    /\ IneqIdle
    /\ WlogIdle
    /\ GeneratorIdle
    /\ h_cache = <<>>
    /\ h_call = NoHarmonicCall

\* harmonic_number(r) with r in the cache: the stored value is returned
HarmonicHit ==
    /\ \E r \in HarmonicArgs :
        /\ r \in DOMAIN h_cache
        /\ h_call' = [made |-> TRUE, r |-> r, value |-> h_cache[r], hit |-> TRUE]
    /\ UNCHANGED h_cache
    /\ UNCHANGED exceptHarmonic

\* harmonic_number(r) with r not in the cache: the sum is computed and stored
HarmonicMiss ==
    /\ \E r \in HarmonicArgs :
        /\ r \notin DOMAIN h_cache
        /\ h_call' = [made |-> TRUE, r |-> r, value |-> HSum(1, r), hit |-> FALSE]
        /\ h_cache' = [a \in DOMAIN h_cache \cup {r} |->
                          IF a = r THEN HSum(1, r) ELSE h_cache[a]]
    /\ UNCHANGED exceptHarmonic

NextHarmonic == HarmonicHit \/ HarmonicMiss

SpecHarmonic == InitHarmonic /\ [][NextHarmonic]_vars

-----------------------------------------------------------------------------
(* One run of the generator notebook: the three program types              *)

\* show(ballot): the members of the ballot in increasing order, as in the
\* keys max_freq_018 and max_freq_019 that the verifier notebook reads
show(ballot) ==
    LET digits[x \in 0 .. num_alts] ==
            IF x = num_alts THEN ""
            ELSE (IF x \in ballot THEN ToString(x) ELSE "") \o digits[x + 1]
    IN  digits[0]

\* objVal in units of 1e-6; 0.00001 is ten units
ObjUnit == 1000000
Threshold == 10
\* GRB.OPTIMAL, GRB.INFEASIBLE (no objVal to read), GRB.SUBOPTIMAL
OPTIMAL == "OPTIMAL"
INFEASIBLE == "INFEASIBLE"
SUBOPTIMAL == "SUBOPTIMAL"

\* set(ballot for ballot in ballots if utility(ballot, T) > utility(ballot, pav_committee))
first_batch_ballots ==
    SelectSeq(ballots, LAMBDA b : utility(b, T) > utility(b, pav_committee))
Reversed(seq) == [i \in 1 .. Len(seq) |-> seq[Len(seq) + 1 - i]]
\* the order in which the set is iterated
FirstBatchOrders == {first_batch_ballots, Reversed(first_batch_ballots)}

SolvedBallots ==
    {first_batch_ballots[i] : i \in 1 .. Len(first_batch_ballots)}
        \cup {ballots_intersecting_T[i] : i \in 1 .. Len(ballots_intersecting_T)}

\* the answers the recorded run shows: weight 0.25 for (0, 1, 8) and
\* (0, 1, 9), every other maximum 0
RecordedSolver ==
    [b \in SolvedBallots |->
        [status |-> OPTIMAL,
         objVal |-> IF b \in {{0, 1, 8}, {0, 1, 9}} THEN ObjUnit \div 4 ELSE 0]]
\* other answers a solver could give for one program
SolverAnswers ==
    {[status |-> OPTIMAL, objVal |-> ObjUnit \div 4],
     [status |-> OPTIMAL, objVal |-> Threshold],
     [status |-> OPTIMAL, objVal |-> Threshold - 1],
     [status |-> OPTIMAL, objVal |-> 0],
     [status |-> SUBOPTIMAL, objVal |-> 0],
     [status |-> INFEASIBLE, objVal |-> 0]}
VariedBallots == {{8}, {0, 1, 8}, {0, 1, 9}, {0, 8, 9}, {2, 8}}
SolverInputs ==
    {RecordedSolver}
        \cup {[RecordedSolver EXCEPT ![b] = answer] :
                 b \in VariedBallots, answer \in SolverAnswers}

\* the solved model handed to save_dual: the sense is GRB.MAXIMIZE, the dual
\* values are one of the sample vectors
SolvedModel(pi) == [ModelSense |-> -1, Pi |-> pi, PiReoptimized |-> pi]

InitGenerator ==
    /\ VerifyIdle
    /\ BatchIdle
    /\ ModelIdle
    /\ IneqIdle
    /\ WlogIdle
    /\ HarmonicIdle
    /\ \/ pkl_file = EmptyStore /\ json_file = NoFile
       \/ /\ pkl_file = [exists |-> TRUE, content |-> EarlierStore]
          /\ json_file = [exists |-> TRUE, content |-> JsonDump(EarlierStore)]
    /\ not_found = {}
    /\ save_call = NoCall
    /\ g_solver \in SolverInputs
    /\ g_pc = "first"
    /\ g_todo \in FirstBatchOrders
    /\ g_writes = <<>>

Written(step, ballot, name) ==
    Append(g_writes, [step |-> step, ballot |-> ballot, name |-> name])

\* first program type: the optimum is not above 0.00001, nothing is saved
FirstNotSaved ==
    /\ g_pc = "first"
    /\ g_todo # <<>>
    /\ ~(g_solver[Head(g_todo)].status = OPTIMAL /\ g_solver[Head(g_todo)].objVal > Threshold)
    /\ g_todo' = Tail(g_todo)
    /\ UNCHANGED <<g_solver, g_pc, g_writes>>
    /\ UNCHANGED <<storeVars, exceptGenerator>>

\* if m.status == GRB.OPTIMAL and m.objVal > 0.00001: save_dual(m, name=max_freq_...)
FirstSaveMax ==
    /\ g_pc = "first"
    /\ g_todo # <<>>
    /\ g_solver[Head(g_todo)].status = OPTIMAL
    /\ g_solver[Head(g_todo)].objVal > Threshold
    /\ save_dual_body(SolvedModel(PiExact), "max_freq_" \o show(Head(g_todo)))
    /\ g_writes' = Written("first_max", Head(g_todo), "max_freq_" \o show(Head(g_todo)))
    /\ g_pc' = "first_min"
    /\ UNCHANGED <<g_solver, g_todo>>
    /\ UNCHANGED exceptGenerator

\* the minimum is computed and printed: save_dual(m, name=min_freq_...)
FirstSaveMin ==
    /\ g_pc = "first_min"
    /\ save_dual_body(SolvedModel(PiNear), "min_freq_" \o show(Head(g_todo)))
    /\ g_writes' = Written("first_min", Head(g_todo), "min_freq_" \o show(Head(g_todo)))
    /\ g_todo' = Tail(g_todo)
    /\ g_pc' = "first"
    /\ UNCHANGED g_solver
    /\ UNCHANGED exceptGenerator

\* the second cell builds its list of canonical ballots intersecting T
SecondStart ==
    /\ g_pc = "first"
    /\ g_todo = <<>>
    /\ g_todo' = ballots_intersecting_T
    /\ g_pc' = "second"
    /\ UNCHANGED <<g_solver, g_writes>>
    /\ UNCHANGED <<storeVars, exceptGenerator>>

\* if ballot == (0, 1, 8): continue # handled above
SecondSkip ==
    /\ g_pc = "second"
    /\ g_todo # <<>>
    /\ Head(g_todo) = SkippedBallot
    /\ g_todo' = Tail(g_todo)
    /\ UNCHANGED <<g_solver, g_pc, g_writes>>
    /\ UNCHANGED <<storeVars, exceptGenerator>>

\* faulty variant: the assertion is left out
AssertionPasses_always(answer) == TRUE
\* assert m.objVal < 0.00001; reading objVal of an infeasible model raises
AssertionPasses(answer) == answer.status # INFEASIBLE /\ answer.objVal < Threshold

\* the assertion fails (or objVal cannot be read): the run ends there
SecondAssertFails ==
    /\ g_pc = "second"
    /\ g_todo # <<>>
    /\ Head(g_todo) # SkippedBallot
    /\ ~AssertionPasses(g_solver[Head(g_todo)])
    /\ g_pc' = "aborted"
    /\ UNCHANGED <<g_solver, g_todo, g_writes>>
    /\ UNCHANGED <<storeVars, exceptGenerator>>

\* if m.status == GRB.OPTIMAL: save_dual(m, name=max_freq_...)
SecondSave ==
    /\ g_pc = "second"
    /\ g_todo # <<>>
    /\ Head(g_todo) # SkippedBallot
    /\ AssertionPasses(g_solver[Head(g_todo)])
    /\ g_solver[Head(g_todo)].status = OPTIMAL
    /\ save_dual_body(SolvedModel(PiFar), "max_freq_" \o show(Head(g_todo)))
    /\ g_writes' = Written("second", Head(g_todo), "max_freq_" \o show(Head(g_todo)))
    /\ g_todo' = Tail(g_todo)
    /\ UNCHANGED <<g_solver, g_pc>>
    /\ UNCHANGED exceptGenerator

\* the assertion holds but the status is not GRB.OPTIMAL: nothing is saved
SecondNotSaved ==
    /\ g_pc = "second"
    /\ g_todo # <<>>
    /\ Head(g_todo) # SkippedBallot
    /\ AssertionPasses(g_solver[Head(g_todo)])
    /\ g_solver[Head(g_todo)].status # OPTIMAL
    /\ g_todo' = Tail(g_todo)
    /\ UNCHANGED <<g_solver, g_pc, g_writes>>
    /\ UNCHANGED <<storeVars, exceptGenerator>>

\* x = 2 # without loss of generality
MarginalX == 2

\* third program type: save_dual(m, name=f"max_marginal_{x}")
ThirdSaveMax ==
    /\ g_pc = "second"
    /\ g_todo = <<>>
    /\ save_dual_body(SolvedModel(PiExact), "max_marginal_" \o ToString(MarginalX))
    /\ g_writes' = Written("third_max", {}, "max_marginal_" \o ToString(MarginalX))
    /\ g_pc' = "third_min"
    /\ UNCHANGED <<g_solver, g_todo>>
    /\ UNCHANGED exceptGenerator

\* save_dual(m, name=f"min_marginal_{x}"), the last statement of the notebook
ThirdSaveMin ==
    /\ g_pc = "third_min"
    /\ save_dual_body(SolvedModel(PiNear), "min_marginal_" \o ToString(MarginalX))
    /\ g_writes' = Written("third_min", {}, "min_marginal_" \o ToString(MarginalX))
    /\ g_pc' = "done"
    /\ UNCHANGED <<g_solver, g_todo>>
    /\ UNCHANGED exceptGenerator

NextGenerator ==
    \/ FirstNotSaved
    \/ FirstSaveMax
    \/ FirstSaveMin
    \/ SecondStart
    \/ SecondSkip
    \/ SecondAssertFails
    \/ SecondSave
    \/ SecondNotSaved
    \/ ThirdSaveMax
    \/ ThirdSaveMin

SpecGenerator == InitGenerator /\ [][NextGenerator]_vars

-----------------------------------------------------------------------------
(* The dual constraint as the dual linear program states it                *)

\* H(0) = 0, H(r) = H(r-1) + 1/r
HarmonicRec[r \in 0 .. num_alts] ==
    IF r = 0 THEN FInt(0) ELSE FAdd(HarmonicRec[r - 1], Fraction(1, r))
HarmonicTable == [r \in 0 .. num_alts |-> HarmonicRec[r]]

\* Delta_{A,x,y} = H(|A cap (W - x + y)|) - H(|A cap W|)
ClaimDelta(b, x, y) ==
    FSub(HarmonicTable[Cardinality(b \cap ((pav_committee \ {x}) \cup {y}))],
         HarmonicTable[Cardinality(b \cap pav_committee)])

\* alpha + sum_{x in W, y notin W} beta[x,y] * Delta_{A,x,y} - gamma * [u_A(T) > u_A(W)]
ClaimLhs(dual, b) ==
    LET sum[S \in SUBSET (pav_committee \X (A \ pav_committee)), acc \in Int \X Int] ==
            IF S = {} THEN acc
            ELSE LET e == CHOOSE e \in S : TRUE
                 IN  sum[S \ {e}, FAdd(acc, FMul(dual.beta[e], ClaimDelta(b, e[1], e[2])))]
        total == sum[pav_committee \X (A \ pav_committee), dual.alpha]
    IN  IF Cardinality(b \cap T) > Cardinality(b \cap pav_committee)
        THEN FSub(total, dual.gamma)
        ELSE total

ClaimHolds(dual, obj, b) == FGe(ClaimLhs(dual, b), ObjectiveAt(obj, b))

HasNegativeSign(dual) ==
    \/ FLt(dual.gamma, FInt(0))
    \/ \E x \in pav_committee : \E y \in A \ pav_committee :
            FLt(dual.beta[<<x, y>>], FInt(0))

-----------------------------------------------------------------------------
\* C1: verify_dual_solution returns a value only if every ballot of the whole
\* universe SUBSET A satisfies lhs(b) >= objective[b], with lhs(b) as the dual
\* program defines it and an exact rational comparison; one violating ballot
\* is enough for no value to be returned.
C1_Soundness ==
    v_result.status = "returned" =>
        \A b \in SUBSET A : ClaimHolds(dual_solution, objective, b)

\* a call that returned for a dual with gamma > 0, a positive beta and an
\* indicator objective
C1_Witness ==
    /\ v_result.status = "returned"
    /\ FGt(dual_solution.gamma, FInt(0))
    /\ \E s \in SwapPairs : FGt(dual_solution.beta[s], FInt(0))
    /\ objective.kind = "freq" /\ objective.sign = 1

\* C2: a negative gamma or a negative beta[x,y] makes the call fail without a
\* value, whatever the objective, also when every ballot inequality holds.
C2_SignFailure ==
    (v_result.status # "idle" /\ HasNegativeSign(dual_solution)) =>
        /\ v_result.status = "AssertionError"
        /\ v_result.stage = "sign"
        /\ v_result.value = None

\* a failed call on a dual with a negative gamma all of whose ballot
\* inequalities hold
C2_Witness ==
    /\ v_result.status = "AssertionError"
    /\ FLt(dual_solution.gamma, FInt(0))
    /\ \A s \in SwapPairs : FGe(dual_solution.beta[s], FInt(0))
    /\ \A b \in SUBSET A : ClaimHolds(dual_solution, objective, b)

\* C3: a returned value v is exactly alpha - (|T|/k) * gamma, that is
\* k * v = k * alpha - |T| * gamma (cross-multiplied over the integers); beta
\* and the objective do not enter.
C3_ReturnedValue ==
    v_result.status = "returned" =>
        LET v == v_result.value
            a == dual_solution.alpha
            g == dual_solution.gamma
        IN  /\ v[2] > 0
            /\ GCD(Abs(v[1]), v[2]) = 1
            /\ k * v[1] * a[2] * g[2]
                 = v[2] * (k * a[1] * g[2] - Cardinality(T) * g[1] * a[2])

\* a returned value with gamma > 0, hence different from alpha
C3_Witness ==
    /\ v_result.status = "returned"
    /\ FGt(dual_solution.gamma, FInt(0))
    /\ v_result.value # dual_solution.alpha

\* C4 as stated: the report of a bound violation names the offending ballot
\* together with the computed lhs and the expected bound.
C4_ReportsBallot ==
    v_result.stage = "bound" =>
        \E i \in 1 .. Len(v_result.printed) :
            /\ "ballot" \in DOMAIN v_result.printed[i]
            /\ v_result.printed[i].ballot = v_result.ballot

\* C4 (behaviour of the code): when some ballot violates its dual constraint the call fails
\* after printing exactly one line, which holds the computed lhs and the
\* expected bound objective[ballot] of the first violating ballot in sorted
\* order, and nothing else; a call that ends otherwise prints nothing.
C4_ReportsLhsRhs ==
    /\ v_result.stage = "bound" =>
        /\ v_result.status = "AssertionError"
        /\ Len(v_result.printed) = 1
        /\ DOMAIN v_result.printed[1] = {"lhs", "rhs"}
        /\ v_result.printed[1].lhs = ClaimLhs(dual_solution, v_result.ballot)
        /\ v_result.printed[1].rhs = ObjectiveAt(objective, v_result.ballot)
        /\ FLt(v_result.printed[1].lhs, v_result.printed[1].rhs)
        /\ \A i \in 1 .. Len(ballots) :
              ballots[i] = v_result.ballot =>
                 \A j \in 1 .. (i - 1) : ClaimHolds(dual_solution, objective, ballots[j])
    /\ v_result.stage # "bound" => v_result.printed = <<>>

\* a bound violation found after several ballots passed, for a dual with a
\* positive beta
C4_Witness ==
    /\ v_result.stage = "bound"
    /\ v_result.ballot # {}
    /\ Cardinality(v_result.ballot) < num_alts
    /\ \E s \in SwapPairs : FGt(dual_solution.beta[s], FInt(0))
    /\ v_result.printed[1].lhs # FInt(0)

-----------------------------------------------------------------------------
(* Batch verification                                                      *)

BatchEnded == b_pc \in {"done", "aborted"}
LoggedKeys == {b_log[j].key : j \in DOMAIN b_log}
KeysAfter(pos) ==
    {ballots_intersecting_T[i] : i \in (pos + 1) .. Len(ballots_intersecting_T)}
        \ {SkippedBallot}

\* C5 (as stated): a failing or missing key aborts only its own check, so when
\* the batch run has ended every key of the batch except the skipped one has
\* been checked.
C5_EveryKeyChecked ==
    BatchEnded => CheckedKeys \subseteq LoggedKeys

\* C5 (behaviour of the loop): the first key that is missing or fails its
\* check ends the whole run.  Only the last log entry can be a failure, and
\* after it no later key is looked up and the closing message is not printed;
\* the message is printed only after every key has passed.
C5_FirstFailureEndsRun ==
    /\ \A j \in DOMAIN b_log :
           b_log[j].outcome # "passed" => (j = Len(b_log) /\ b_pc = "aborted")
    /\ b_pc = "aborted" =>
           /\ b_out = <<>>
           /\ b_log # <<>>
           /\ b_log[Len(b_log)].key = CurrentKey
           /\ b_log[Len(b_log)].outcome \in {"KeyError", "AssertionError"}
           /\ KeysAfter(b_pos) \cap LoggedKeys = {}
    /\ b_out # <<>> =>
           /\ b_pc = "done"
           /\ CheckedKeys \subseteq LoggedKeys
           /\ \A j \in DOMAIN b_log : b_log[j].outcome = "passed"

\* a run that ended at a failing certificate while later keys, all present in
\* the store with valid certificates, were never checked
C5_Witness ==
    /\ b_pc = "aborted"
    /\ Len(b_log) >= 2
    /\ b_log[Len(b_log)].outcome = "AssertionError"
    /\ KeysAfter(b_pos) # {}
    /\ KeysAfter(b_pos) \subseteq DOMAIN dual_solutions

-----------------------------------------------------------------------------
(* The model of make_model against the verifier                            *)

ModelCompared == m_column.built /\ m_lhs # NotRun

\* sum over the constraints of dual value times coefficient of freq[m_ballot]
DualTimesColumn(dual, coefficient) ==
    LET sum[i \in 1 .. (Len(swaps) + 1), acc \in Int \X Int] ==
            IF i > Len(swaps) THEN acc
            ELSE sum[i + 1,
                     FAdd(acc, FMul(dual.beta[swaps[i]],
                                    coefficient[ConstrName(swaps[i][1], swaps[i][2])]))]
    IN  sum[1, FAdd(FMul(dual.alpha, coefficient["alpha"]),
                    FMul(dual.gamma, coefficient["gamma"]))]

\* C6: for every ballot and every swap (x,y) the coefficient of freq[ballot]
\* in the constraint beta_x_y of make_model equals the term the verifier
\* multiplies by beta[x,y]; the ballot takes part in the constraint gamma
\* exactly when the verifier subtracts gamma, i.e. when utility(ballot, T) >
\* utility(ballot, W) strictly; hence the verifier's lhs is the dual solution
\* applied to the column of freq[ballot].
C6_SameCoefficients ==
    ModelCompared =>
        /\ \A s \in SwapPairs :
               m_dual = UnitBeta(s) =>
                   m_lhs = m_column.coefficient[ConstrName(s[1], s[2])]
        /\ m_dual = UnitGamma =>
               /\ m_lhs = m_column.coefficient["gamma"]
               /\ m_lhs \in {FInt(-1), FInt(0)}
               /\ m_lhs = FInt(-1) <=>
                      Cardinality(m_ballot \cap T) > Cardinality(m_ballot \cap pav_committee)
        /\ m_dual = UnitAlpha => m_lhs = m_column.coefficient["alpha"]
        /\ m_lhs = DualTimesColumn(m_dual, m_column.coefficient)

\* a ballot with equal utility for T and W (no part in gamma) whose swap
\* coefficient for (2,8) is H(3) - H(2) = 1/3, and a ballot preferring T
C6_Witness ==
    /\ ModelCompared
    /\ \/ /\ m_ballot = {0, 1, 8}
          /\ m_dual = UnitBeta(<<2, 8>>)
          /\ m_lhs = Fraction(1, 3)
          /\ m_column.coefficient["gamma"] = FInt(0)
       \/ /\ m_ballot = {8, 9}
          /\ m_dual = UnitGamma
          /\ m_lhs = FInt(-1)

-----------------------------------------------------------------------------
(* The two stores written by save_dual                                     *)

\* reading a text back: the digits of an integer, the two sides of "n/d"
DigitValue(ch) == CHOOSE d \in 0 .. 9 : DigitChars[d + 1] = ch
IsDigits(text) ==
    /\ Len(text) >= 1
    /\ \A i \in 1 .. Len(text) : \E d \in 1 .. 10 : DigitChars[d] = text[i]
RECURSIVE ParseNat(_)
ParseNat(text) ==
    IF Len(text) = 1 THEN DigitValue(text[1])
    ELSE 10 * ParseNat(SubSeq(text, 1, Len(text) - 1)) + DigitValue(text[Len(text)])
IsIntText(text) ==
    /\ Len(text) >= 1
    /\ IF text[1] = "-" THEN IsDigits(Tail(text)) ELSE IsDigits(text)
ParseInt(text) == IF text[1] = "-" THEN -ParseNat(Tail(text)) ELSE ParseNat(text)
SlashAt(text) == {i \in 1 .. Len(text) : text[i] = "/"}
IsFractionText(text) ==
    /\ Cardinality(SlashAt(text)) = 1
    /\ \A i \in SlashAt(text) :
           /\ IsIntText(SubSeq(text, 1, i - 1))
           /\ IsIntText(SubSeq(text, i + 1, Len(text)))
           /\ ParseInt(SubSeq(text, i + 1, Len(text))) # 0
\* the pair <<numerator, denominator>> as written
ParseFractionText(text) ==
    LET i == CHOOSE j \in SlashAt(text) : TRUE
    IN  <<ParseInt(SubSeq(text, 1, i - 1)), ParseInt(SubSeq(text, i + 1, Len(text)))>>

StoredPairs ==
    {<<name, c>> : name \in DOMAIN json_file.content, c \in ConstrNames}

\* C7 (as stated): every dual value in the JSON store is a string
\* "numerator/denominator" from which exactly the rational of the pickle
\* store is reconstructed, zero and whole numbers included.
C7_AllFractionStrings ==
    json_file.exists =>
        \A p \in StoredPairs :
            /\ json_file.content[p[1]][p[2]].json = "string"
            /\ IsFractionText(json_file.content[p[1]][p[2]].text)
            /\ ParseFractionText(json_file.content[p[1]][p[2]].text)
                   = pkl_file.content[p[1]][p[2]].value

\* C7 (behaviour of the code): every Fraction of the pickle store is written as
\* the string "numerator/denominator" in lowest terms with a positive
\* denominator (whole numbers as "n/1"), and reading the two integers back
\* gives exactly that Fraction; the only other value, the int 0 of the
\* library, is written as the JSON number 0, not as a string.
C7_FractionsRoundTrip ==
    json_file.exists =>
        \A p \in StoredPairs :
            IF pkl_file.content[p[1]][p[2]].type = "Fraction"
            THEN /\ json_file.content[p[1]][p[2]].json = "string"
                 /\ IsFractionText(json_file.content[p[1]][p[2]].text)
                 /\ ParseFractionText(json_file.content[p[1]][p[2]].text)
                        = pkl_file.content[p[1]][p[2]].value
                 /\ pkl_file.content[p[1]][p[2]].value # FInt(0)
            ELSE /\ pkl_file.content[p[1]][p[2]].value = FInt(0)
                 /\ json_file.content[p[1]][p[2]] = [json |-> "number", text |-> <<"0">>]

\* a stored record with a zero, a whole number and a proper fraction
C7_Witness ==
    /\ json_file.exists
    /\ "max_freq_0" \in DOMAIN json_file.content
    /\ json_file.content["max_freq_0"]["beta_0_8"] = [json |-> "number", text |-> <<"0">>]
    /\ json_file.content["max_freq_0"]["gamma"] = [json |-> "string", text |-> <<"2", "/", "1">>]
    /\ json_file.content["max_freq_0"]["beta_2_8"] = [json |-> "string", text |-> <<"1", "/", "2">>]
    /\ pkl_file.content["max_freq_0"]["beta_0_8"].type = "int"

\* the value a reader of the JSON store obtains
ReadJson(v) ==
    IF v.json = "string"
    THEN Fraction(ParseFractionText(v.text)[1], ParseFractionText(v.text)[2])
    ELSE FInt(ParseInt(v.text))

StoresAgree(pkl, json) ==
    /\ pkl.exists /\ json.exists
    /\ DOMAIN pkl.content = DOMAIN json.content
    /\ \A n \in DOMAIN pkl.content :
           /\ DOMAIN pkl.content[n] = DOMAIN json.content[n]
           /\ \A c \in DOMAIN pkl.content[n] :
                  ReadJson(json.content[n][c]) = pkl.content[n][c].value

Named(call) == call.name # None /\ call.name # ""

\* C8: every save_dual call with a name leaves the pickle store and the JSON
\* store with the same keys and the same dual values, sets the record of its
\* own name only and leaves every other record as it was; a call without a
\* name changes neither store.
C8_StoresInStep ==
    [][save_call'.count = save_call.count + 1 =>
        IF Named(save_call')
        THEN /\ StoresAgree(pkl_file', json_file')
             /\ DOMAIN pkl_file'.content = DOMAIN pkl_file.content \cup {save_call'.name}
             /\ pkl_file'.content[save_call'.name] = save_call'.values
             /\ \A n \in DOMAIN pkl_file.content \ {save_call'.name} :
                    /\ pkl_file'.content[n] = pkl_file.content[n]
                    /\ json_file.exists => json_file'.content[n] = json_file.content[n]
        ELSE pkl_file' = pkl_file /\ json_file' = json_file]_vars

\* two named calls under different names, the second keeping the first record
C8_Witness ==
    /\ save_call.count >= 2
    /\ Named(save_call)
    /\ save_call.name = "min_freq_0"
    /\ DOMAIN pkl_file.content = {"max_freq_0", "min_freq_0"}
    /\ pkl_file.content["max_freq_0"] # pkl_file.content["min_freq_0"]
    /\ StoresAgree(pkl_file, json_file)

-----------------------------------------------------------------------------
(* The key inequality                                                      *)

\* T is canonical: the lowest members of the committee 0..kk-1 followed by
\* the lowest alternatives outside it
IsCanonical(kk, comb) ==
    \E i \in 0 .. Len(comb) :
        Elements(comb) = (0 .. (i - 1)) \cup (kk .. (kk + Len(comb) - i - 1))
Inside(kk, comb) == Cardinality(Elements(comb) \cap (0 .. (kk - 1)))
Outside(kk, comb) == Len(comb) - Inside(kk, comb)

\* delta_A > (kk/|T| - 1) * |T\W|, cleared of denominators; wmt = |W\T|,
\* tmw = |T\W|, size = |T|
DeltaExceeds(kk, size, wmt, tmw, a, b, c) ==
    IF a + b = 0
    THEN size * (wmt * c) > (kk - size) * tmw
    ELSE size * ((wmt - a) * c * (a + b) - a * (tmw - c) * (a + b + 1))
             > (kk - size) * tmw * (a + b) * (a + b + 1)

\* the inequality holds for every ballot profile (a,b,c) that prefers T
HoldsForAllProfiles(kk, comb) ==
    \A a \in 0 .. (kk - Inside(kk, comb)), b \in 0 .. Inside(kk, comb),
       c \in 0 .. Outside(kk, comb) :
        c > a => DeltaExceeds(kk, Len(comb), kk - Inside(kk, comb), Outside(kk, comb), a, b, c)

AtDeviation(kk) ==
    /\ ci_pc = "T"
    /\ ci_k = kk
    /\ IsCanonical(kk, ci_T)
    /\ Outside(kk, ci_T) >= 1

\* C9: for k = 1..7 check_inequality(k) returns the empty set: for every
\* deviation size below k, every canonical T with a non-committee member and
\* every profile (a,b,c) with c > a, delta_A is strictly greater than
\* (k/|T| - 1) * |T\W|.
C9_NoViolationUpTo7 ==
    /\ \A i \in DOMAIN ci_printed : i <= 7 => ci_printed[i] = {}
    /\ ci_k <= 7 => ci_violations = {}
    /\ \A kk \in 1 .. 7 : AtDeviation(kk) => HoldsForAllProfiles(kk, ci_T)

\* check_inequality(7) has returned, after seven calls without a violation
C9_Witness ==
    /\ Len(ci_printed) = 7
    /\ ci_printed[7] = {}
    /\ ci_k = 8

\* C10: check_inequality(8) returns exactly {(0, 1, 8, 9)}: the inequality
\* fails for the canonical deviation of two committee members and two
\* non-committee members and for no other canonical deviation of size 1..7.
C10_OnlyViolationAt8 ==
    /\ Len(ci_printed) >= 8 => ci_printed[8] = {<<0, 1, 8, 9>>}
    /\ ci_k = 8 => ci_violations \subseteq {<<0, 1, 8, 9>>}
    /\ AtDeviation(8) => (HoldsForAllProfiles(8, ci_T) <=> ci_T # <<0, 1, 8, 9>>)
    /\ (ci_k = 8 /\ ci_pc = "T_size" /\ ci_T_size >= 5) => ci_violations = {<<0, 1, 8, 9>>}

\* the driver has printed the result for k = 8
C10_Witness ==
    /\ ci_pc = "done"
    /\ Len(ci_printed) = 8
    /\ <<0, 1, 8, 9>> \in ci_printed[8]

-----------------------------------------------------------------------------
(* The symmetry reduction                                                  *)

SameMembership(e1, e2) == \A i \in DOMAIN w_sets : e1 \in w_sets[i] <=> e2 \in w_sets[i]
InNoSet(e) == \A i \in DOMAIN w_sets : e \notin w_sets[i]

\* C11: the blocks returned by generate_wlog_partition are non-empty,
\* pairwise disjoint and cover the ground set; two elements share a block iff
\* they lie in exactly the same distinguished sets; the elements of no
\* distinguished set form one block, which in check_inequality is the block
\* k..k+|T|-1 of the non-committee candidates.
C11_PartitionBlocks ==
    w_partition # {} =>
        /\ \A block \in w_partition : block # {} /\ block \subseteq w_ground
        /\ \A b1 \in w_partition, b2 \in w_partition : b1 # b2 => b1 \cap b2 = {}
        /\ UNION w_partition = w_ground
        /\ \A e1 \in w_ground, e2 \in w_ground :
               (\E block \in w_partition : e1 \in block /\ e2 \in block)
                   <=> SameMembership(e1, e2)
        /\ {e \in w_ground : InNoSet(e)} # {} =>
               {e \in w_ground : InNoSet(e)} \in w_partition
        /\ w_origin.site = "check_inequality" =>
               w_partition = {0 .. (w_origin.k - 1),
                              w_origin.k .. (w_origin.k + w_origin.T_size - 1)}

\* the partition made in check_inequality(8) for T_size = 4
C11_Witness ==
    /\ w_origin = [site |-> "check_inequality", k |-> 8, T_size |-> 4]
    /\ w_partition = {0 .. 7, 8 .. 11}

\* the sets obtained from S by permuting elements inside the blocks
Orbit(S) ==
    {S2 \in SUBSET w_ground :
        \A block \in w_partition : Cardinality(S2 \cap block) = Cardinality(S \cap block)}

\* in every block, the |S \cap block| lowest-indexed elements of the block
LowestRepresentative(S) ==
    UNION {{e \in block : Cardinality({l \in block : l < e}) < Cardinality(S \cap block)} :
           block \in w_partition}

ListedBallots == {ballots_intersecting_T[i] : i \in 1 .. Len(ballots_intersecting_T)}

-----------------------------------------------------------------------------
(* Harmonic numbers                                                        *)

\* p < q for two fractions, by cross-multiplication
PairLess(p, q) == p[1] * q[2] < q[1] * p[2]
\* q = p + 1/r, cleared of denominators
IsNextHarmonic(p, q, r) == q[1] * p[2] * r = (p[1] * r + p[2]) * q[2]

\* C13: harmonic_number(0) = 0, harmonic_number(r) = harmonic_number(r-1) +
\* 1/r for r >= 1 as exact rationals, harmonic_number is strictly increasing,
\* and a call answered from the cache returns what a fresh computation
\* returns.
C13_HarmonicRecurrence ==
    /\ 0 \in DOMAIN h_cache => h_cache[0] = <<0, 1>>
    /\ \A r \in DOMAIN h_cache :
           /\ h_cache[r] = HarmonicTable[r]
           /\ (r >= 1 /\ (r - 1) \in DOMAIN h_cache) =>
                  IsNextHarmonic(h_cache[r - 1], h_cache[r], r)
           /\ \A r2 \in DOMAIN h_cache : r < r2 => PairLess(h_cache[r], h_cache[r2])
    /\ h_call.made =>
           /\ h_call.value = HarmonicTable[h_call.r]
           /\ h_call.value = h_cache[h_call.r]

\* a call answered from the cache, with its predecessor cached as well
C13_Witness ==
    /\ h_call.made
    /\ h_call.hit
    /\ h_call.r = 3
    /\ h_call.value = <<11, 6>>
    /\ {0, 2, 3, 8} \subseteq DOMAIN h_cache

-----------------------------------------------------------------------------
(* The swap set                                                            *)

SwapSet == {<<x, y>> : x \in 0 .. (k - 1), y \in k .. (num_alts - 1)}
NegativeAt(s) ==
    MakeDual(FInt(0), [t \in SwapPairs |-> IF t = s THEN FInt(-1) ELSE FInt(0)], FInt(0))

\* what holds of the swap lists whatever ballot and dual solution are at hand
SwapSetFacts ==
    /\ {swaps[i] : i \in 1 .. Len(swaps)} = SwapSet
    /\ Len(swaps) = k * (num_alts - k)
    /\ Cardinality(SwapSet) = k * (num_alts - k)
    /\ make_model_swaps = SwapSet
    /\ \A s \in SwapSet :
           /\ ~SignsOk(NegativeAt(s))
           /\ Cardinality(swapped(pav_committee, s[1], s[2])) = k
           /\ s[2] \in swapped(pav_committee, s[1], s[2])
           /\ s[1] \notin swapped(pav_committee, s[1], s[2])
           /\ swapped(pav_committee, s[1], s[2]) \ {s[2]} = pav_committee \ {s[1]}
           /\ s \in DOMAIN W_xy
           /\ W_xy[s] = swapped(pav_committee, s[1], s[2])
           /\ W_xy[s] \in committees

\* C14: the swap set is {(x,y) : x in W, y in A outside W}, of size
\* k * (|A| - k); make_model's swap constraints, the beta values of the dual
\* solution, the sign check and the sum in lhs all range over this set; for
\* each swap, swapped(W,x,y) has size k, contains y, not x, and agrees with W
\* elsewhere.
C14_SwapSet ==
    /\ m_column.built =>
           /\ SwapSetFacts
           /\ DOMAIN m_column.coefficient
                  = {"alpha", "gamma"} \cup {ConstrName(s[1], s[2]) : s \in SwapSet}
    /\ ModelCompared =>
           /\ DOMAIN m_dual.beta = SwapSet
           /\ \A s \in SwapSet :
                  m_dual = UnitBeta(s) => m_lhs = ClaimDelta(m_ballot, s[1], s[2])

\* the swap (7, 9) seen by a ballot that approves 9 only
C14_Witness ==
    /\ ModelCompared
    /\ m_ballot = {9}
    /\ m_dual = UnitBeta(<<7, 9>>)
    /\ m_lhs = <<1, 1>>
    /\ m_column.coefficient["beta_7_9"] = <<1, 1>>

-----------------------------------------------------------------------------
(* Snapping to the fraction library                                        *)

\* |n/d - value/PiUnit| as numerator over the denominator d * PiUnit
Gap(entry, value) == Abs(entry[1] * PiUnit - value * entry[2])
\* Gap(e1)/e1[2] <= Gap(e2)/e2[2], whole parts first, then the remainders
NotFarther(e1, e2, value) ==
    LET g1 == Gap(e1, value)
        g2 == Gap(e2, value)
    IN  \/ g1 \div e1[2] < g2 \div e2[2]
        \/ /\ g1 \div e1[2] = g2 \div e2[2]
           /\ (g1 % e1[2]) * e2[2] <= (g2 % e2[2]) * e1[2]
LibraryValues == {fractions[i].value : i \in 1 .. Len(fractions)}
\* some library entry lies within 1e-6 = 4 / PiUnit of the value
SomeEntryWithinTolerance(value) ==
    \E e \in LibraryValues : Gap(e, value) + 1 <= 4 * e[2]
PrintedValues(call) == {call.printed[i] : i \in 1 .. Len(call.printed)}

\* C15: for every constraint save_dual stores the library entry closest to
\* the solver's dual value; when no entry lies within 1e-6 of the value, the
\* value is put into not_found and a message is printed for it, the call
\* still completes and the closest entry is still stored.
C15_ClosestEntryStored ==
    save_call.count >= 1 =>
        \A c \in ConstrNames :
            /\ save_call.values[c].value \in LibraryValues
            /\ \A e \in LibraryValues :
                   NotFarther(save_call.values[c].value, e, save_call.pi[c])
            /\ ~SomeEntryWithinTolerance(save_call.pi[c]) =>
                   /\ save_call.pi[c] \in not_found
                   /\ save_call.pi[c] \in PrintedValues(save_call)
                   /\ Named(save_call) =>
                          pkl_file.content[save_call.name][c] = save_call.values[c]
            /\ SomeEntryWithinTolerance(save_call.pi[c]) =>
                   save_call.pi[c] \notin PrintedValues(save_call)

\* a dual value 0.1234 with no library entry nearby: reported, and stored as 1/8
C15_Witness ==
    /\ save_call.count >= 1
    /\ Named(save_call)
    /\ save_call.pi["alpha"] = 493600
    /\ save_call.printed = <<493600>>
    /\ 493600 \in not_found
    /\ pkl_file.content[save_call.name]["alpha"] = [type |-> "Fraction", value |-> <<1, 8>>]
    /\ save_call.values["gamma"] = [type |-> "int", value |-> <<0, 1>>]

-----------------------------------------------------------------------------
(* Canonical deviations stand for their orbits                             *)

\* the canonical deviation with i committee members and j outsiders
Representative(kk, i, j) ==
    [p \in 1 .. (i + j) |-> IF p <= i THEN p - 1 ELSE kk + (p - i) - 1]
\* the verdict as a function of the three counts alone: some profile (a,b,c)
\* preferring T has delta_A <= (kk/|T| - 1) * |T\W|
VerdictByCounts ==
    [kk \in 1 .. MaxK, i \in 0 .. MaxK, j \in 0 .. MaxK |->
        \E a \in 0 .. (kk - i), b \in 0 .. i, c \in 0 .. j :
            /\ c > a
            /\ ~DeltaExceeds(kk, i + j, kk - i, j, a, b, c)]
OwnRepresentative(kk, comb) == Representative(kk, Inside(kk, comb), Outside(kk, comb))

\* C18: restricting check_inequality to canonical deviations loses no
\* violation: for a fixed k the verdict of the loop body on a deviation T is
\* a function of |W\T|, |W/\T| and |T\W| alone, so deviations of the same
\* size with the same number of committee members get the same verdict, and
\* a deviation that is not canonical violates the inequality if and only if
\* the canonical representative of its orbit is in the set violations.
C18_CanonicalLosesNothing ==
    (ci_pc = "T" /\ Outside(ci_k, ci_T) >= 1) =>
        LET i == Inside(ci_k, ci_T)
            j == Outside(ci_k, ci_T)
            r == OwnRepresentative(ci_k, ci_T)
            verdict == AddsViolation(ci_k, ci_T)
        IN  /\ W_minus_T(ci_k, ci_T) = ci_k - i
            /\ W_cap_T(ci_k, ci_T) = i
            /\ T_minus_W(ci_k, ci_T) = j
            /\ verdict <=> VerdictByCounts[ci_k, i, j]
            /\ is_wlog(Elements(ci_T), wlog_partition(ci_k, ci_T_size)) <=> ci_T = r
            /\ ci_T # r => (verdict <=> r \in ci_violations)

\* for k = 8 the loop is at (0, 2, 8, 9), which is skipped, violates the
\* inequality, and whose representative (0, 1, 8, 9) has been added
C18_Witness ==
    /\ ci_pc = "T"
    /\ ci_k = 8
    /\ ci_T = <<0, 2, 8, 9>>
    /\ ~is_wlog(Elements(ci_T), wlog_partition(ci_k, ci_T_size))
    /\ AddsViolation(ci_k, ci_T)
    /\ OwnRepresentative(ci_k, ci_T) = <<0, 1, 8, 9>>
    /\ <<0, 1, 8, 9>> \in ci_violations

-----------------------------------------------------------------------------
(* Certificates are written once per run                                   *)

WritesOf(name) == {i \in 1 .. Len(g_writes) : g_writes[i].name = name}
WrittenNames == {g_writes[i].name : i \in 1 .. Len(g_writes)}
Optimum(ballot) == g_solver[ballot].objVal
\* different ballots get different keys
ShowDistinguishes == \A b1, b2 \in SolvedBallots : show(b1) = show(b2) => b1 = b2

\* C17: in one run of the generator notebook with a deterministic solver no
\* key is written by save_dual more than once: a key max_freq_<b> written by
\* the first batch has optimum above 1e-5 for b, one written by the second
\* batch has b other than (0, 1, 8) and optimum below 1e-5, min_freq_<b> is
\* written only by the first batch, right after max_freq_<b>, and the two
\* marginal keys are written by one statement each; every key written is in
\* the store.
C17_KeysWrittenOnce ==
    /\ \A i, j \in 1 .. Len(g_writes) : g_writes[i].name = g_writes[j].name => i = j
    /\ \A i \in 1 .. Len(g_writes) :
        LET w == g_writes[i]
        IN  /\ w.step = "first_max" =>
                /\ w.name = "max_freq_" \o show(w.ballot)
                /\ Optimum(w.ballot) > Threshold
            /\ w.step = "second" =>
                /\ w.name = "max_freq_" \o show(w.ballot)
                /\ w.ballot # {0, 1, 8}
                /\ Optimum(w.ballot) < Threshold
            /\ w.step = "first_min" =>
                /\ w.name = "min_freq_" \o show(w.ballot)
                /\ i > 1
                /\ g_writes[i - 1].step = "first_max"
                /\ g_writes[i - 1].ballot = w.ballot
            /\ w.step = "third_max" => w.name = "max_marginal_2"
            /\ w.step = "third_min" => w.name = "min_marginal_2"
            /\ w.step \in {"first_max", "first_min", "second", "third_max", "third_min"}
    /\ ShowDistinguishes
    /\ WrittenNames \subseteq DOMAIN pkl_file.content
    /\ g_pc = "done" =>
           /\ Cardinality(WritesOf("max_marginal_2")) = 1
           /\ Cardinality(WritesOf("min_marginal_2")) = 1
           /\ Cardinality(WritesOf("max_freq_018")) = 1 <=> Optimum({0, 1, 8}) > Threshold

\* the recorded run has ended: both batches and the third cell have written
\* their keys, (0, 1, 8) by the first batch only
C17_Witness ==
    /\ g_pc = "done"
    /\ g_solver = RecordedSolver
    /\ \E i \in 1 .. Len(g_writes) :
           g_writes[i].step = "first_max" /\ g_writes[i].name = "max_freq_018"
    /\ \E i \in 1 .. Len(g_writes) :
           g_writes[i].step = "second" /\ g_writes[i].name = "max_freq_8"
    /\ "min_freq_019" \in WrittenNames
    /\ g_writes[Len(g_writes)].name = "min_marginal_2"
    /\ Len(g_writes) = 4 + (Len(ballots_intersecting_T) - 1) + 2

====
